---- MODULE Spec2Model ----
(***************************************************************************)
(* Model of the LQA analysis pipeline of services/llmService.ts:           *)
(* callTranslationQaLLM, runAnalysis, retryWithBackoff, verifyIssues and   *)
(* sanitizeReport, with the two collaborators of services/reportGenerator  *)
(* (enforceScoreConsistency, determineStrictQuality) modelled from their   *)
(* contract.                                                               *)
(*                                                                         *)
(* Text is modelled as a sequence of tokens, so that concatenation, the    *)
(* glossary tag scan, lower-casing and substring search are computed and   *)
(* not assumed.  An optional string is a record [def, s]; def = FALSE is   *)
(* JavaScript's undefined/null.                                            *)
(***************************************************************************)
EXTENDS Integers, Sequences, FiniteSets, TLC

\* ------------------------------------------------------------------------
\* Bounds of the model
\* ------------------------------------------------------------------------
MaxIssues == 2
MaxVerdicts == 2
MaxRequests == 2
MaxLiveVerdicts == 1

\* ------------------------------------------------------------------------
\* Program constants
\* ------------------------------------------------------------------------
DefaultRetries == 2
InitialDelay == 1000
BackoffFactor == 2
MaxTerminologyScore == 5

\* ------------------------------------------------------------------------
\* Optional strings
\* ------------------------------------------------------------------------
Str(s) == [def |-> TRUE, s |-> s]
undefined == [def |-> FALSE, s |-> <<>>]
\* JavaScript truthiness of an optional string: undefined, null and "" are falsy
Truthy(x) == x.def /\ x.s # <<>>

Categories == {"Layout", "Mistranslation", "Terminology", "Formatting",
               "Grammar", "Style", "Other"}
Severities == {"Critical", "Major", "Minor"}

\* ------------------------------------------------------------------------
\* sanitizeReport (llmService.ts 195-232)
\* ------------------------------------------------------------------------
DigitTokens == {"0", "1", "9"}

\* text[p..q] is one match of /\[ID:TERM-\d+\]/
IsTagAt(text, p, q) ==
    /\ p >= 1 /\ q <= Len(text) /\ q >= p + 3
    /\ text[p] = "[ID:"
    /\ text[p + 1] = "TERM-"
    /\ \A k \in (p + 2)..(q - 1) : text[k] \in DigitTokens
    /\ text[q] = "]"

\* validIds: the set of all matches of the tag pattern in the glossary text
GlossaryTags(text) ==
    { SubSeq(text, p, q) : <<p, q>> \in
        { pq \in (1..Len(text)) \X (1..Len(text)) : IsTagAt(text, pq[1], pq[2]) } }

\* formattedId = termIdRaw ? `[ID:${termIdRaw}]` : null
FormattedId(termIdRaw) ==
    IF Truthy(termIdRaw) THEN Str(<<"[ID:">> \o termIdRaw.s \o <<"]">>) ELSE undefined

IsGroundedAnyId(issue, validIds) == Truthy(issue.glossaryTermId)

\* isValid = formattedId && validIds.has(formattedId)
IsGrounded(issue, validIds) ==
    /\ FormattedId(issue.glossaryTermId).def
    /\ FormattedId(issue.glossaryTermId).s \in validIds

AutoDowngradePrefix == "[Auto-Downgraded] "
AutoDowngradeSuffix == " (Reason: Terminology ID not found in glossary)"
DowngradedSource == Str(<<"LLM Knowledge (Downgraded)">>)

DowngradeKeepsCategory(issue) ==
    [issue EXCEPT !.severity = "Minor",
                  !.description = <<AutoDowngradePrefix>> \o @ \o <<AutoDowngradeSuffix>>,
                  !.glossaryTermId = undefined,
                  !.glossarySource = DowngradedSource]

\* lines 217-222
Downgrade(issue) ==
    [issue EXCEPT !.issueCategory = "Style",
                  !.severity = "Minor",
                  !.description = <<AutoDowngradePrefix>> \o @ \o <<AutoDowngradeSuffix>>,
                  !.glossaryTermId = undefined,
                  !.glossarySource = DowngradedSource]

SanitizeIssueAnyCategory(issue, validIds) ==
    IF ~IsGrounded(issue, validIds) THEN Downgrade(issue) ELSE issue

SanitizeIssue(issue, validIds) ==
    IF issue.issueCategory = "Terminology" /\ ~IsGrounded(issue, validIds)
    THEN Downgrade(issue)
    ELSE issue

HasGlossaryAlways(glossaryText) == TRUE

\* the guard of line 196, negated: sanitization runs only on a truthy glossary
HasGlossary(glossaryText) == Truthy(glossaryText)

sanitizeReportRecounting(report, glossaryText) ==
    IF ~HasGlossary(glossaryText) THEN report
    ELSE LET validIds == GlossaryTags(glossaryText.s)
             issues == [k \in DOMAIN report.issues |->
                           SanitizeIssue(report.issues[k], validIds)]
             termIssues == SelectSeq(issues, LAMBDA i : i.issueCategory = "Terminology")
             count(sev) == Len(SelectSeq(issues, LAMBDA i : i.severity = sev))
         IN [report EXCEPT
               !.issues = issues,
               !.summary = [severeCount |-> count("Critical"),
                            majorCount |-> count("Major"),
                            minorCount |-> count("Minor")],
               !.overall.scores.terminology =
                   IF Len(termIssues) = 0 THEN MaxTerminologyScore ELSE @]

sanitizeReport(report, glossaryText) ==
    IF ~HasGlossary(glossaryText) THEN report
    ELSE LET validIds == GlossaryTags(glossaryText.s)
             issues == [k \in DOMAIN report.issues |->
                           SanitizeIssue(report.issues[k], validIds)]
             termIssues == SelectSeq(issues, LAMBDA i : i.issueCategory = "Terminology")
         IN [report EXCEPT
               !.issues = issues,
               !.overall.scores.terminology =
                   IF Len(termIssues) = 0 THEN MaxTerminologyScore ELSE @]

\* ------------------------------------------------------------------------
\* Response text: markdown fence stripping and JSON.parse
\* (llmService.ts 326-327 and 450-451)
\* ------------------------------------------------------------------------
\* A response body is [fenced, json]: json is the value the text between the
\* fences denotes, or Garbage when that text is no JSON.
Garbage == [kind |-> "garbage"]
JsonNull == [kind |-> "null"]

StripFenceNone(text) == text

\* responseText.replace(/```json\s*/g, '').replace(/```\s*$/g, '').trim()
StripFence(text) == [text EXCEPT !.fenced = FALSE]

\* JSON.parse throws on a fenced text and on text that is no JSON
ParseThrows(text) == text.fenced \/ text.json = Garbage
JsonParse(text) == text.json

\* ------------------------------------------------------------------------
\* verifyIssues: merge of the verdicts (llmService.ts 329-364)
\* ------------------------------------------------------------------------
Word(w) == [w |-> w, cap |-> FALSE]
Cap(w) == [w |-> w, cap |-> TRUE]

toLowerCase(text) == [k \in DOMAIN text |-> [text[k] EXCEPT !.cap = FALSE]]

Includes(text, phrase) ==
    \E p \in 1..(Len(text) - Len(phrase) + 1) :
        SubSeq(text, p, p + Len(phrase) - 1) = phrase

HallucinationPhrases ==
    { <<Word("hallucination")>>,
      <<Word("not"), Word("visible")>>,
      <<Word("does"), Word("not"), Word("exist")>> }

TextReason(words) == [type |-> "string", words |-> words]
NumberReason == [type |-> "number", words |-> <<>>]
NoReason == [type |-> "undefined", words |-> <<>>]

\* (verdict.reason || ''): a missing or empty reason becomes ''
ReasonOrEmpty(v) == IF v.reason.type = "string" THEN v.reason.words ELSE <<>>

\* .toLowerCase() exists on strings only: a truthy non-string reason raises
ReasonThrows(v) == v.reason.type = "number"

IsHallucinationCaseSensitive(v) ==
    \E ph \in HallucinationPhrases : Includes(ReasonOrEmpty(v), ph)

IsHallucination(v) ==
    \E ph \in HallucinationPhrases : Includes(toLowerCase(ReasonOrEmpty(v)), ph)

\* verifiedIssuesMap: Map.set keeps the last verdict of an id
HasVerdict(verdicts, id) == \E k \in DOMAIN verdicts : verdicts[k].id = id
VerdictFor(verdicts, id) ==
    LET last == CHOOSE k \in DOMAIN verdicts :
                    /\ verdicts[k].id = id
                    /\ \A j \in DOMAIN verdicts : verdicts[j].id = id => j <= k
    IN verdicts[last]

\* the map is filled only when verifiedIssues is an array (line 330)
VerifiedIssuesMap(json) == IF json.isArray THEN json.verifiedIssues ELSE <<>>

Rejected(v) == v.isValid # "true"

RescuableAnyCategory(issue, v) == ~IsHallucination(v)

RescuableStyleOnly(issue, v) ==
    /\ issue.issueCategory = "Style"
    /\ ~IsHallucination(v)

Rescuable(issue, v) ==
    /\ issue.issueCategory \in {"Style", "Formatting"}
    /\ ~IsHallucination(v)

ReviewPrefix == "[Review: Minor] "

RescueAsMajor(issue) ==
    [issue EXCEPT !.severity = "Major",
                  !.description = <<ReviewPrefix>> \o @]

Rescue(issue) ==
    [issue EXCEPT !.severity = "Minor",
                  !.description = <<ReviewPrefix>> \o @]

RefineSeverityOnly(issue, v) ==
    [issue EXCEPT
       !.severity = IF v.refinedSeverity # "" THEN v.refinedSeverity ELSE @]

\* lines 353-358
Refine(issue, v) ==
    [issue EXCEPT
       !.severity = IF v.refinedSeverity # "" THEN v.refinedSeverity ELSE @,
       !.suggestionRationale =
           IF Truthy(v.refinedRationale) THEN v.refinedRationale.s ELSE @]

\* the issue object after the filter callback has run on it
Visited(issue, verdicts) ==
    IF ~HasVerdict(verdicts, issue.id) THEN issue
    ELSE LET v == VerdictFor(verdicts, issue.id)
         IN IF Rejected(v)
            THEN IF Rescuable(issue, v) THEN Rescue(issue) ELSE issue
            ELSE Refine(issue, v)

\* the value the filter callback returns
Kept(issue, verdicts) ==
    \/ ~HasVerdict(verdicts, issue.id)
    \/ LET v == VerdictFor(verdicts, issue.id)
       IN ~Rejected(v) \/ Rescuable(issue, v)

\* the filter callback raises on this issue
VisitThrows(issue, verdicts) ==
    /\ HasVerdict(verdicts, issue.id)
    /\ LET v == VerdictFor(verdicts, issue.id)
       IN Rejected(v) /\ ReasonThrows(v)

RECURSIVE FilterIssuesReversed(_, _)
FilterIssuesReversed(issues, verdicts) ==
    IF issues = <<>> THEN <<>>
    ELSE FilterIssuesReversed(Tail(issues), verdicts)
         \o (IF Kept(Head(issues), verdicts)
             THEN <<Visited(Head(issues), verdicts)>> ELSE <<>>)

\* initialReport.issues.filter(...): the visited issues the callback keeps
RECURSIVE FilterIssues(_, _)
FilterIssues(issues, verdicts) ==
    IF issues = <<>> THEN <<>>
    ELSE (IF Kept(Head(issues), verdicts)
          THEN <<Visited(Head(issues), verdicts)>> ELSE <<>>)
         \o FilterIssues(Tail(issues), verdicts)

\* Outcome of lines 325-370 on a non-empty response text: the report
\* verifyIssues returns and the return statement it leaves by.
MergeVerdicts(report, text) ==
    LET cleaned == StripFence(text)
        json == JsonParse(cleaned)
        verdicts == VerifiedIssuesMap(json)
        issues == report.issues
        throwing == { k \in DOMAIN issues : VisitThrows(issues[k], verdicts) }
        first == CHOOSE k \in throwing : \A j \in throwing : k <= j
    IN IF ParseThrows(cleaned) \/ json = JsonNull
       THEN [report |-> report, outcome |-> "parseThrew"]
       ELSE IF throwing # {}
       THEN \* the issues visited before the exception stay mutated in place;
            \* initialReport.issues is not reassigned (line 363 is not reached)
            [report |-> [report EXCEPT !.issues =
                            [k \in DOMAIN issues |->
                                IF k < first THEN Visited(issues[k], verdicts)
                                ELSE issues[k]]],
             outcome |-> "mergeThrew"]
       ELSE [report |-> [report EXCEPT !.issues = FilterIssues(issues, verdicts)],
             outcome |-> "merged"]

\* ------------------------------------------------------------------------
\* services/reportGenerator: enforceScoreConsistency, determineStrictQuality
\* ------------------------------------------------------------------------
Min(a, b) == IF a < b THEN a ELSE b

CountSeverity(report, sev) ==
    Cardinality({ k \in DOMAIN report.issues : report.issues[k].severity = sev })

\* the score dimension an issue category weighs on
DimensionOf(cat) ==
    CASE cat = "Layout" -> "layout"
      [] cat = "Terminology" -> "terminology"
      [] cat = "Mistranslation" -> "accuracy"
      [] cat = "Grammar" -> "grammar"
      [] cat = "Formatting" -> "formatting"
      [] OTHER -> "localizationTone"

\* the bound a dimension's score may not exceed, given the issues
ScoreCap(report, dim) ==
    IF \E k \in DOMAIN report.issues :
          /\ DimensionOf(report.issues[k].issueCategory) = dim
          /\ report.issues[k].severity = "Critical"
    THEN 2
    ELSE IF \E k \in DOMAIN report.issues :
          /\ DimensionOf(report.issues[k].issueCategory) = dim
          /\ report.issues[k].severity = "Major"
    THEN 3
    ELSE 5

\* scores are only lowered, never raised
enforceScoreConsistency(report) ==
    [report EXCEPT !.overall.scores =
        [dim \in DOMAIN @ |-> Min(@[dim], ScoreCap(report, dim))]]

\* a function of the numbers of Critical, Major and Minor issues
determineStrictQuality(report) ==
    IF CountSeverity(report, "Critical") > 0 THEN "Critical"
    ELSE IF CountSeverity(report, "Major") > 0 THEN "Poor"
    ELSE IF CountSeverity(report, "Minor") > 1 THEN "Average"
    ELSE IF CountSeverity(report, "Minor") > 0 THEN "Good"
    ELSE "Excellent"

\* ------------------------------------------------------------------------
\* Inputs of the model: the request, the generation responses and the
\* verifier responses
\* ------------------------------------------------------------------------
RequestId == "shot-1.png"

Term1 == Str(<<"TERM-", "1">>)
Term9 == Str(<<"TERM-", "9">>)

\* glossary texts: absent, empty, and one with the tag of TERM-1, free text
\* and a tag that has no digits
Glossaries ==
    { undefined,
      Str(<<>>),
      Str(<<"[ID:", "TERM-", "1", "]", "Save = Enregistrer", "[ID:", "TERM-", "]">>) }

IssueIdAt(k) == IF k = 1 THEN "I1" ELSE IF k = 2 THEN "I2" ELSE "I3"

Issue(id, cat, sev, termId, sugg) ==
    [id |-> id, issueCategory |-> cat, severity |-> sev,
     description |-> <<"text overlaps">>,
     suggestionRationale |-> <<"why">>,
     suggestionsTarget |-> sugg,
     glossarySource |-> IF cat = "Terminology" THEN Str(<<"terms.csv">>) ELSE undefined,
     glossaryTermId |-> termId]

OneSuggestion == Str(<<"Resize container">>)

\* the reference issues: a list of two issues has at most one issue that is
\* not one of these
PlainIssues(k) ==
    { Issue(IssueIdAt(k), "Style", "Critical", undefined, OneSuggestion),
      Issue(IssueIdAt(k), "Terminology", "Major", Term1, OneSuggestion) }

\* the issues a generation response may carry at position k
IssueKinds(k) ==
    { Issue(IssueIdAt(k), cat, sev, undefined, OneSuggestion) :
          cat \in Categories \ {"Terminology"}, sev \in {"Critical", "Minor"} }
    \cup { Issue(IssueIdAt(k), "Terminology", sev, termId, OneSuggestion) :
          sev \in {"Critical"}, termId \in {undefined, Str(<<>>), Term1, Term9} }
    \cup { Issue(IssueIdAt(k), "Layout", "Major", undefined, sugg) :
          sugg \in {undefined, Str(<<>>), OneSuggestion} }
    \cup PlainIssues(k)

\* issue lists of at most MaxIssues issues; a list of more than two issues is
\* made of the reference issues
IssueLists ==
    UNION { { l \in [1..n -> UNION { IssueKinds(k) : k \in 1..n }] :
                /\ \A k \in 1..n : l[k] \in IssueKinds(k)
                /\ Cardinality({ k \in 1..n : l[k] \notin PlainIssues(k) })
                       <= (IF n <= 2 THEN 1 ELSE 0) }
            : n \in 0..MaxIssues }

Scores(term) ==
    [accuracy |-> 5, terminology |-> term, layout |-> 4, grammar |-> 5,
     formatting |-> 5, localizationTone |-> 5]

\* what the generation call reports besides the issues: the echoed
\* screenshot id, its own quality label, the scores and the summary counts
EchoHeader ==
    [screenshotId |-> Str(<<"shot-7.png">>), qualityLevel |-> "Perfect",
     scores |-> Scores(5), summary |-> [severeCount |-> 1, majorCount |-> 1, minorCount |-> 1]]

Headers ==
    { EchoHeader,
      [screenshotId |-> undefined, qualityLevel |-> "Good",
       scores |-> Scores(3), summary |-> [severeCount |-> 0, majorCount |-> 0, minorCount |-> 0]] }

\* the JSON value of a generation response that is a report; hasIssues is
\* FALSE when the model omitted the issues field
ReportJson(h, issues, hasIssues) ==
    [kind |-> "report", screenshotId |-> h.screenshotId,
     overall |-> [qualityLevel |-> h.qualityLevel, scores |-> h.scores],
     hasOverall |-> TRUE,
     issues |-> issues, hasIssues |-> hasIssues, summary |-> h.summary]

\* responses that parse but lack the overall object: one without issues, one
\* with a Style issue and a Terminology issue whose id is not in the glossary
NoOverall == [qualityLevel |-> "undefined", scores |-> Scores(0)]

IncompleteJsons ==
    { [ReportJson(EchoHeader, l, TRUE) EXCEPT !.hasOverall = FALSE,
                                              !.overall = NoOverall] :
        l \in { <<>>,
                << Issue("I1", "Style", "Critical", undefined, OneSuggestion),
                   Issue("I2", "Terminology", "Critical", Term9, OneSuggestion) >> } }

\* a response with several issues carries EchoHeader
ReportJsons ==
    { ReportJson(h, l, TRUE) : h \in Headers, l \in { l \in IssueLists : Len(l) <= 1 } }
    \cup { ReportJson(EchoHeader, l, TRUE) : l \in { l \in IssueLists : Len(l) > 1 } }
    \cup { ReportJson(h, <<>>, FALSE) : h \in Headers }
    \cup IncompleteJsons

Verdict(id, isValid, reason, refinedSeverity, refinedRationale) ==
    [id |-> id, isValid |-> isValid, reason |-> reason,
     refinedSeverity |-> refinedSeverity, refinedRationale |-> refinedRationale]

\* the verdicts a verifier response may carry on issue id
VerdictsOn(id) ==
    { Verdict(id, "true", TextReason(<<Word("real")>>), "", undefined),
      Verdict(id, "true", TextReason(<<Word("real")>>), "Critical", Str(<<"legal">>)),
      Verdict(id, "true", TextReason(<<Word("real")>>), "Blocker", undefined),
      Verdict(id, "false", TextReason(<<Word("negligible")>>), "", undefined),
      Verdict(id, "false", TextReason(<<Word("is"), Cap("not"), Word("visible")>>), "", undefined),
      Verdict(id, "false", NumberReason, "", undefined) }

RECURSIVE Concat(_)
Concat(ss) == IF ss = <<>> THEN <<>> ELSE Head(ss) \o Concat(Tail(ss))

\* verdict lists with at most one verdict per issue, in the order of the
\* issues, on at most two of the issues
OrderedVerdictLists(issues) ==
    { Concat(c) : c \in
        { c \in [DOMAIN issues -> {<<>>} \cup UNION { { <<v>> : v \in VerdictsOn(issues[k].id) }
                                                        : k \in DOMAIN issues }] :
            /\ \A k \in DOMAIN issues :
                  c[k] = <<>> \/ c[k][1].id = issues[k].id
            /\ Cardinality({ k \in DOMAIN issues : c[k] # <<>> }) <= 2 } }

\* verdict lists of MaxVerdicts verdicts on the first issue (the later verdict
\* of an id replaces the earlier one), a verdict on an id that is no issue,
\* and a verdict on the first issue that has no isValid
RepeatedVerdictLists(issues) ==
    LET id == issues[1].id
    IN { l \in [1..MaxVerdicts -> VerdictsOn(id)] :
            /\ l[1].isValid # l[MaxVerdicts].isValid
            /\ \A k \in 1..MaxVerdicts : l[k].refinedSeverity = ""
            /\ \A k \in 1..MaxVerdicts : l[k].reason.type = "string"
            /\ \A k \in 1..MaxVerdicts : ~IsHallucination(l[k]) }
       \cup { << Verdict("I9", "false", TextReason(<<Word("negligible")>>), "Minor", undefined) >>,
              << Verdict(id, "missing", TextReason(<<Word("negligible")>>), "", undefined) >> }

VerdictLists(issues) == OrderedVerdictLists(issues) \cup RepeatedVerdictLists(issues)

VerificationJson(verdictList, isArray) ==
    [kind |-> "verification", verifiedIssues |-> verdictList, isArray |-> isArray]

\* the response bodies of the verifier, given the issues it was shown
VerifierTexts(issues) ==
    { [fenced |-> FALSE, json |-> VerificationJson(vl, TRUE)] : vl \in VerdictLists(issues) }
    \cup { [fenced |-> TRUE, json |-> VerificationJson(vl, TRUE)] :
              vl \in RepeatedVerdictLists(issues) }
    \cup { [fenced |-> FALSE, json |-> j] :
              j \in {Garbage, JsonNull, VerificationJson(<<>>, FALSE)} }

\* ------------------------------------------------------------------------
\* services/lqaSkillBank: the skill registry, detectSceneType, retrieveSkills
\* ------------------------------------------------------------------------
\* A skill is represented by its name.  A text of the skill bank is a sequence
\* of characters, a character outside ASCII being written as its code point.

GENERAL_SKILLS ==
    << "text_expansion_guard",
       "compound_word_detection",
       "number_date_locale_format",
       "capitalization_conventions",
       "politeness_register",
       "icon_text_alignment",
       "ui_layer_occlusion" >>

SCENE_SKILLS ==
    [ navigation |-> <<"nav_truncation_priority", "nav_consistency">>,
      form |-> <<"form_label_overflow", "placeholder_translation", "validation_message_check">>,
      dashboard |-> <<"dashboard_card_density", "chart_axis_labels">>,
      modal |-> <<"modal_button_balance", "modal_content_scroll", "modal_background_exclusion">>,
      table |-> <<"table_header_truncation", "table_cell_wrapping">>,
      settings |-> <<"settings_toggle_labels", "settings_section_headers">>,
      error_page |-> <<"error_tone_check">>,
      generic |-> <<>> ]

\* Object.entries(SCENE_KEYWORDS): the entries in insertion order
SCENE_KEYWORDS ==
    << [scene |-> "navigation", keywords |-> <<
          <<"n", "a", "v">>,
          <<"m", "e", "n", "u">>,
          <<"s", "i", "d", "e", "b", "a", "r">>,
          <<"b", "r", "e", "a", "d", "c", "r", "u", "m", "b">>,
          <<"h", "e", "a", "d", "e", "r">>,
          <<"t", "a", "b">>,
          <<"t", "o", "o", "l", "b", "a", "r">>,
          <<"n", "a", "v", "i", "g", "a", "t", "i", "o", "n">>,
          <<"U+5BFC", "U+822A">>,
          <<"U+83DC", "U+5355">>,
          <<"U+6807", "U+7B7E", "U+680F">>>>],
       [scene |-> "form", keywords |-> <<
          <<"f", "o", "r", "m">>,
          <<"i", "n", "p", "u", "t">>,
          <<"f", "i", "e", "l", "d">>,
          <<"s", "u", "b", "m", "i", "t">>,
          <<"l", "o", "g", "i", "n">>,
          <<"s", "i", "g", "n", "u", "p">>,
          <<"r", "e", "g", "i", "s", "t", "e", "r">>,
          <<"p", "a", "s", "s", "w", "o", "r", "d">>,
          <<"e", "m", "a", "i", "l">>,
          <<"s", "e", "a", "r", "c", "h">>,
          <<"U+8868", "U+5355">>,
          <<"U+8F93", "U+5165">>,
          <<"U+767B", "U+5F55">>>>],
       [scene |-> "dashboard", keywords |-> <<
          <<"d", "a", "s", "h", "b", "o", "a", "r", "d">>,
          <<"a", "n", "a", "l", "y", "t", "i", "c", "s">>,
          <<"c", "h", "a", "r", "t">>,
          <<"g", "r", "a", "p", "h">>,
          <<"k", "p", "i">>,
          <<"m", "e", "t", "r", "i", "c">>,
          <<"o", "v", "e", "r", "v", "i", "e", "w">>,
          <<"s", "t", "a", "t", "s">>,
          <<"U+4EEA", "U+8868", "U+677F">>,
          <<"U+6982", "U+89C8">>,
          <<"U+7EDF", "U+8BA1">>>>],
       [scene |-> "modal", keywords |-> <<
          <<"m", "o", "d", "a", "l">>,
          <<"d", "i", "a", "l", "o", "g">>,
          <<"p", "o", "p", "u", "p">>,
          <<"c", "o", "n", "f", "i", "r", "m">>,
          <<"a", "l", "e", "r", "t">>,
          <<"o", "v", "e", "r", "l", "a", "y">>,
          <<"U+5F39", "U+7A97">>,
          <<"U+5BF9", "U+8BDD", "U+6846">>,
          <<"U+786E", "U+8BA4">>>>],
       [scene |-> "table", keywords |-> <<
          <<"t", "a", "b", "l", "e">>,
          <<"g", "r", "i", "d">>,
          <<"l", "i", "s", "t">>,
          <<"c", "o", "l", "u", "m", "n">>,
          <<"r", "o", "w">>,
          <<"d", "a", "t", "a">>,
          <<"s", "o", "r", "t">>,
          <<"f", "i", "l", "t", "e", "r">>,
          <<"U+8868", "U+683C">>,
          <<"U+5217", "U+8868">>,
          <<"U+6570", "U+636E">>>>],
       [scene |-> "settings", keywords |-> <<
          <<"s", "e", "t", "t", "i", "n", "g">>,
          <<"p", "r", "e", "f", "e", "r", "e", "n", "c", "e">>,
          <<"c", "o", "n", "f", "i", "g">>,
          <<"o", "p", "t", "i", "o", "n">>,
          <<"a", "c", "c", "o", "u", "n", "t">>,
          <<"p", "r", "o", "f", "i", "l", "e">>,
          <<"t", "o", "g", "g", "l", "e">>,
          <<"s", "w", "i", "t", "c", "h">>,
          <<"U+8BBE", "U+7F6E">>,
          <<"U+504F", "U+597D">>,
          <<"U+914D", "U+7F6E">>>>],
       [scene |-> "error_page", keywords |-> <<
          <<"e", "r", "r", "o", "r">>,
          <<"4", "0", "4">>,
          <<"5", "0", "0">>,
          <<"n", "o", "t", " ", "f", "o", "u", "n", "d">>,
          <<"o", "o", "p", "s">>,
          <<"s", "o", "m", "e", "t", "h", "i", "n", "g", " ", "w", "e", "n", "t", " ", "w", "r", "o", "n", "g">>,
          <<"U+9519", "U+8BEF">>,
          <<"U+672A", "U+627E", "U+5230">>>>],
       [scene |-> "generic", keywords |-> <<
          >>] >>

SkillRegistry ==
    [general |-> GENERAL_SKILLS, scene |-> SCENE_SKILLS, keywords |-> SCENE_KEYWORDS]

UpperCaseLetters == <<"A", "B", "C", "D", "E", "F", "G", "H", "I", "J", "K", "L", "M", "N", "O", "P", "Q", "R", "S", "T", "U", "V", "W", "X", "Y", "Z">>
LowerCaseLetters == <<"a", "b", "c", "d", "e", "f", "g", "h", "i", "j", "k", "l", "m", "n", "o", "p", "q", "r", "s", "t", "u", "v", "w", "x", "y", "z">>

\* String.prototype.toLowerCase, character by character
LowerCaseChar(c) ==
    IF \E i \in DOMAIN UpperCaseLetters : UpperCaseLetters[i] = c
    THEN LowerCaseLetters[CHOOSE i \in DOMAIN UpperCaseLetters : UpperCaseLetters[i] = c]
    ELSE c

StringToLowerCase(text) == [k \in DOMAIN text |-> LowerCaseChar(text[k])]

\* keywords.filter((kw) => lower.includes(kw)).length
HitCount(keywords, lower) ==
    Cardinality({ i \in DOMAIN keywords : Includes(lower, keywords[i]) })

ScoreBeatsOrTies(score, bestScore) == score >= bestScore

\* line 289: score > bestScore
ScoreBeats(score, bestScore) == score > bestScore

\* the loop of lines 286-293, from entry k on
RECURSIVE ScanScenes(_, _, _, _, _)
ScanScenes(table, lower, k, bestScene, bestScore) ==
    IF k > Len(table) THEN bestScene
    ELSE IF table[k].scene = "generic"
    THEN ScanScenes(table, lower, k + 1, bestScene, bestScore)
    ELSE LET score == HitCount(table[k].keywords, lower)
         IN IF ScoreBeats(score, bestScore)
            THEN ScanScenes(table, lower, k + 1, table[k].scene, score)
            ELSE ScanScenes(table, lower, k + 1, bestScene, bestScore)

\* detectSceneType(text), reading the keyword table
detectSceneType(table, text) ==
    ScanScenes(table, StringToLowerCase(text), 1, "generic", 0)

KeepsSkillAnyLanguage(skill, targetLang) == TRUE

\* the filter callback of lines 321-326
KeepsSkill(skill, targetLang) ==
    ~(skill = "compound_word_detection" /\ targetLang # "de-DE")

\* retrieveSkills(sceneHint, targetLang), reading the registry
retrieveSkills(reg, sceneHint, targetLang) ==
    LET filteredGeneral == SelectSeq(reg.general, LAMBDA skill : KeepsSkill(skill, targetLang))
        sceneType == detectSceneType(reg.keywords, sceneHint)
    IN [generalSkills |-> filteredGeneral,
        sceneSkills |-> reg.scene[sceneType],
        sceneType |-> sceneType]

RegistryFilteredInPlace(reg, targetLang) ==
    [reg EXCEPT !.general = SelectSeq(@, LAMBDA skill : KeepsSkill(skill, targetLang))]

\* the registry after retrieveSkills: Array.prototype.filter builds a new
\* array, Object.entries and the index into SCENE_SKILLS only read
RegistryAfterRetrieve(reg, targetLang) == reg

TargetLanguages == {"de-DE", "fr-FR"}

\* every keyword of the table, as a text
KeywordTexts ==
    UNION { { SCENE_KEYWORDS[k].keywords[i] : i \in DOMAIN SCENE_KEYWORDS[k].keywords }
            : k \in DOMAIN SCENE_KEYWORDS }

\* scene hints (payload.screenshotId || '')
SceneHints ==
    KeywordTexts \cup
    { <<>>,
      <<"s", "h", "o", "t", "-", "1", ".", "p", "n", "g">>,
      <<"s", "e", "t", "t", "i", "n", "g", "s", " ", "p", "a", "g", "e", " ", "w", "i", "t", "h", " ", "t", "o", "g", "g", "l", "e", " ", "s", "w", "i", "t", "c", "h", "e", "s">>,
      <<"S", "e", "t", "t", "i", "n", "g", "s", " ", "P", "a", "g", "e">>,
      <<"L", "O", "G", "I", "N", "-", "F", "O", "R", "M", ".", "p", "n", "g">>,
      <<"e", "r", "r", "o", "r", " ", "4", "0", "4", " ", "n", "o", "t", " ", "f", "o", "u", "n", "d">>,
      <<"d", "a", "s", "h", "b", "o", "a", "r", "d", "_", "o", "v", "e", "r", "v", "i", "e", "w", ".", "p", "n", "g">>,
      <<"c", "o", "n", "f", "i", "r", "m", " ", "d", "i", "a", "l", "o", "g">>,
      <<"h", "o", "m", "e", ".", "p", "n", "g">>,
      <<"p", "r", "o", "f", "i", "l", "e", " ", "m", "e", "n", "u">>,
      <<"t", "a", "b", " ", "s", "w", "i", "t", "c", "h", " ", "t", "o", "g", "g", "l", "e">>,
      <<"d", "a", "t", "a", " ", "g", "r", "i", "d", " ", "f", "i", "l", "t", "e", "r">>,
      <<"U+8BBE", "U+7F6E", ".", "p", "n", "g">> }

\* the scene hints of requests that run side by side
ConcurrentHints ==
    { <<"l", "o", "g", "i", "n", " ", "f", "o", "r", "m">>,
      <<"h", "o", "m", "e", ".", "p", "n", "g">> }

\* ------------------------------------------------------------------------
\* State
\* ------------------------------------------------------------------------
VARIABLES
    apiKey,         \* process.env.API_KEY is set
    glossaryText,   \* payload.glossaryText
    pc,             \* where callTranslationQaLLM is suspended, or how it ended
    wrapper,        \* the retryWithBackoff call in progress: "primary" or "fallback"
    retries,        \* its parameter retries
    delay,          \* its parameter delay
    slept,          \* the delays of the setTimeout waits so far, in order
    failures,       \* per wrapper, the number of rejections of fn()
    emptyBodies,    \* generation calls of this request that returned no text
    discards,       \* attempts of this request that failed after parsing a draft
    analyses,       \* per model, the number of runAnalysis invocations
    verifierCalls,  \* generateContent calls made by verifyIssues in this attempt
    generated,      \* the JSON value of the generation response of this attempt
    draft,          \* parsedReport after line 462
    verdicts,       \* the verdict list of the verifier response, when one was parsed
    verifyOutcome,  \* the way verifyIssues returned in this attempt
    verified,       \* parsedReport after line 468
    sanitized,      \* parsedReport after line 476
    report,         \* the report the call resolved with
    error,          \* the error the call rejected with
    pool,           \* the callTranslationQaLLM calls that run side by side
    registry,       \* the module-level tables of lqaSkillBank
    images          \* the processImageUrl calls of one attempt

vars == <<apiKey, glossaryText, pc, wrapper, retries, delay, slept, failures,
          emptyBodies, discards, analyses, verifierCalls, generated, draft, verdicts, verifyOutcome,
          verified, sanitized, report, error, pool, registry, images>>

poolVars == <<pool, registry, images>>

NoReport == [kind |-> "none"]

\* LLM_FALLBACK_MODEL_ID is exported by constants.ts but llmService.ts imports
\* only getAnalysisSystemPrompt and LLM_MODEL_ID (line 3): evaluating the
\* identifier at lines 298 and 497 raises a ReferenceError.
FallbackIdResolves == FALSE

InitRequest ==
    /\ apiKey \in BOOLEAN
    /\ glossaryText \in Glossaries
    /\ pc = "entry"
    /\ wrapper = "primary"
    /\ retries = DefaultRetries
    /\ delay = InitialDelay
    /\ slept = <<>>
    /\ failures = [primary |-> 0, fallback |-> 0]
    /\ emptyBodies = 0
    /\ discards = 0
    /\ analyses = [primary |-> 0, fallback |-> 0]
    /\ verifierCalls = 0
    /\ generated = NoReport
    /\ draft = NoReport
    /\ verdicts = <<>>
    /\ verifyOutcome = "none"
    /\ verified = NoReport
    /\ sanitized = NoReport
    /\ report = NoReport
    /\ error = "none"

\* one call: nothing runs beside it
Init ==
    /\ InitRequest
    /\ pool = <<>>
    /\ registry = SkillRegistry
    /\ images = <<>>

\* ------------------------------------------------------------------------
\* retryWithBackoff (179-192) and the fallback of callTranslationQaLLM (493-498)
\* ------------------------------------------------------------------------
Control ==
    [pc |-> pc, wrapper |-> wrapper, retries |-> retries, delay |-> delay,
     slept |-> slept, failures |-> failures, error |-> error]

ExhaustedEarly(r) == r = 1

\* line 187: if (retries === 0) throw error
Exhausted(r) == r = 0

RECURSIVE Caught(_, _)
RECURSIVE Invoked(_)

\* line 185: fn() is called. The primary fn starts runAnalysis, which suspends
\* on the image fetches; the fallback fn evaluates LLM_FALLBACK_MODEL_ID first,
\* and the error that raises is caught at line 186 like any other.
Invoked(c) ==
    IF c.wrapper = "primary" \/ FallbackIdResolves
    THEN [c EXCEPT !.pc = "images"]
    ELSE Caught(c, "ReferenceError")

\* line 186: fn() rejected with error e. With retries left the wrapper waits
\* delay; without, it throws: out of the primary wrapper into the catch of
\* line 495, which starts the fallback wrapper; out of the fallback wrapper
\* to the caller.
Caught(c, e) ==
    LET f == [c EXCEPT !.failures[c.wrapper] = @ + 1]
    IN IF ~Exhausted(c.retries)
       THEN [f EXCEPT !.pc = "backoff", !.slept = Append(@, c.delay)]
       ELSE IF c.wrapper = "primary"
       THEN Invoked([f EXCEPT !.wrapper = "fallback",
                              !.retries = DefaultRetries,
                              !.delay = InitialDelay])
       ELSE [f EXCEPT !.pc = "rejected", !.error = e]

BackoffStepConstantDelay(c) == [c EXCEPT !.retries = @ - 1]

BackoffStepKeepsRetries(c) == [c EXCEPT !.delay = @ * BackoffFactor]

\* line 190: retryWithBackoff(fn, retries - 1, delay * 2)
BackoffStep(c) == [c EXCEPT !.retries = @ - 1, !.delay = @ * BackoffFactor]

ContinueKeepsAttempt(n) ==
    /\ pc' = n.pc
    /\ wrapper' = n.wrapper
    /\ retries' = n.retries
    /\ delay' = n.delay
    /\ slept' = n.slept
    /\ failures' = n.failures
    /\ error' = n.error
    /\ analyses' = IF n.pc = "images" THEN [analyses EXCEPT ![n.wrapper] = @ + 1]
                   ELSE analyses
    /\ UNCHANGED <<verifierCalls, generated, draft, verdicts, verifyOutcome,
                   verified, sanitized>>
    /\ UNCHANGED <<apiKey, glossaryText, report>>
    /\ UNCHANGED poolVars

\* the control state becomes n; a runAnalysis that starts begins a fresh attempt
Continue(n) ==
    /\ pc' = n.pc
    /\ wrapper' = n.wrapper
    /\ retries' = n.retries
    /\ delay' = n.delay
    /\ slept' = n.slept
    /\ failures' = n.failures
    /\ error' = n.error
    /\ IF n.pc = "images"
       THEN /\ analyses' = [analyses EXCEPT ![n.wrapper] = @ + 1]
            /\ verifierCalls' = 0
            /\ generated' = NoReport
            /\ draft' = NoReport
            /\ verdicts' = <<>>
            /\ verifyOutcome' = "none"
            /\ verified' = NoReport
            /\ sanitized' = NoReport
       ELSE UNCHANGED <<analyses, verifierCalls, generated, draft, verdicts,
                        verifyOutcome, verified, sanitized>>
    /\ UNCHANGED <<apiKey, glossaryText, report>>
    /\ UNCHANGED poolVars

\* ------------------------------------------------------------------------
\* callTranslationQaLLM (373-499)
\* ------------------------------------------------------------------------
MissingApiKeyRetried ==
    /\ pc = "entry"
    /\ ~apiKey
    /\ Continue(Caught(Control, "ConfigurationError"))
    /\ UNCHANGED <<emptyBodies, discards>>

\* lines 375-378: no API key
MissingApiKey ==
    /\ pc = "entry"
    /\ ~apiKey
    /\ pc' = "rejected"
    /\ error' = "ConfigurationError"
    /\ UNCHANGED <<apiKey, glossaryText, wrapper, retries, delay, slept, failures,
                   emptyBodies, discards, analyses, verifierCalls, generated, draft, verdicts,
                   verifyOutcome, verified, sanitized, report>>
    /\ UNCHANGED poolVars

\* line 494: the primary wrapper is entered and calls fn()
BeginRequest ==
    /\ pc = "entry"
    /\ apiKey
    /\ Continue(Invoked(Control))
    /\ UNCHANGED <<emptyBodies, discards>>

\* line 189: the timer fires; line 190 calls the wrapper again
BackoffElapsed ==
    /\ pc = "backoff"
    /\ Continue(Invoked(BackoffStep(Control)))
    /\ UNCHANGED <<emptyBodies, discards>>

\* lines 384-387: one of the two image fetches fails
ImagesFail ==
    /\ pc = "images"
    /\ Continue(Caught(Control, "ImageError"))
    /\ UNCHANGED <<emptyBodies, discards>>

\* lines 384-438: both images are ready; the generation call is sent
ImagesLoaded ==
    /\ pc = "images"
    /\ pc' = "generating"
    /\ UNCHANGED <<apiKey, glossaryText, wrapper, retries, delay, slept, failures,
                   emptyBodies, discards, analyses, verifierCalls, generated, draft, verdicts,
                   verifyOutcome, verified, sanitized, report, error>>
    /\ UNCHANGED poolVars

\* line 423: the generation call throws
GenerateThrows ==
    /\ pc = "generating"
    /\ Continue(Caught(Control, "BackendError"))
    /\ UNCHANGED <<emptyBodies, discards>>

\* lines 442-444: the response has no text
GenerateEmpty ==
    /\ pc = "generating"
    /\ Continue(Caught(Control, "EmptyResponse"))
    /\ emptyBodies' = emptyBodies + 1
    /\ UNCHANGED discards

\* lines 448-455: the response text does not parse
GenerateUnparsable ==
    /\ pc = "generating"
    /\ \E text \in { [fenced |-> FALSE, json |-> Garbage] } :
          /\ ParseThrows(StripFence(text))
          /\ Continue(Caught(Control, "InvalidJson"))
    /\ UNCHANGED <<emptyBodies, discards>>

StampOnlyWhenMissing(json) == IF json.screenshotId.def THEN json.screenshotId ELSE Str(<<RequestId>>)

\* line 459: parsedReport.screenshotId = payload.screenshotId
Stamp(json) == Str(<<RequestId>>)

\* lines 457-462: the parsed report, stamped, with an issue list
Normalise(json) ==
    [screenshotId |-> Stamp(json),
     overall |-> json.overall,
     hasOverall |-> json.hasOverall,
     issues |-> IF json.hasIssues THEN json.issues ELSE <<>>,
     summary |-> json.summary]

NeedsVerificationAlways(d) == TRUE

\* line 465: parsedReport.issues.length > 0
NeedsVerification(d) == Len(d.issues) > 0

GradeKeepsLabel(r) == r

\* lines 482-486: the strict label replaces the label of the model
Grade(r) == [r EXCEPT !.overall.qualityLevel = determineStrictQuality(r)]

FinishGradesFirst(g, d, vl, outcome, calls, r) ==
    /\ generated' = g
    /\ draft' = d
    /\ verdicts' = vl
    /\ verifyOutcome' = outcome
    /\ verifierCalls' = calls
    /\ verified' = r
    /\ sanitized' = sanitizeReport(r, glossaryText)
    /\ report' = sanitizeReport(enforceScoreConsistency(Grade(r)), glossaryText)
    /\ pc' = "resolved"
    /\ UNCHANGED <<apiKey, glossaryText, wrapper, retries, delay, slept, failures,
                   emptyBodies, discards, analyses, error>>
    /\ UNCHANGED poolVars

\* lines 476-486 read parsedReport.overall: on a report without the object
\* that raises a TypeError (line 230 when sanitization leaves no Terminology
\* issue, line 486 at the latest)
ReconcileThrows(r) == ~r.hasOverall

\* parsedReport when the TypeError is raised: the loop of lines 206-225 has run
SanitizedBeforeThrow(r) ==
    [r EXCEPT !.issues = sanitizeReport(r, glossaryText).issues]

\* the attempt fails after its draft was parsed: runAnalysis rejects and the
\* wrapper catches the error (line 186); parsedReport is dropped with the call
Discard(g, d, vl, outcome, calls, r) ==
    LET n == Caught(Control, "TypeError")
    IN /\ pc' = n.pc
       /\ wrapper' = n.wrapper
       /\ retries' = n.retries
       /\ delay' = n.delay
       /\ slept' = n.slept
       /\ failures' = n.failures
       /\ error' = n.error
       /\ discards' = discards + 1
       /\ IF n.pc = "images"
          THEN /\ analyses' = [analyses EXCEPT ![n.wrapper] = @ + 1]
               /\ verifierCalls' = 0
               /\ generated' = NoReport
               /\ draft' = NoReport
               /\ verdicts' = <<>>
               /\ verifyOutcome' = "none"
               /\ verified' = NoReport
               /\ sanitized' = NoReport
          ELSE /\ generated' = g
               /\ draft' = d
               /\ verdicts' = vl
               /\ verifyOutcome' = outcome
               /\ verifierCalls' = calls
               /\ verified' = r
               /\ sanitized' = SanitizedBeforeThrow(r)
               /\ UNCHANGED analyses
       /\ UNCHANGED <<apiKey, glossaryText, emptyBodies, report>>
       /\ UNCHANGED poolVars

\* the report is complete: lines 476-490 run to the return statement
Resolve(g, d, vl, outcome, calls, r) ==
    /\ generated' = g
    /\ draft' = d
    /\ verdicts' = vl
    /\ verifyOutcome' = outcome
    /\ verifierCalls' = calls
    /\ verified' = r
    /\ sanitized' = sanitizeReport(r, glossaryText)
    /\ report' = Grade(enforceScoreConsistency(sanitizeReport(r, glossaryText)))
    /\ pc' = "resolved"
    /\ UNCHANGED <<apiKey, glossaryText, wrapper, retries, delay, slept, failures,
                   emptyBodies, discards, analyses, error>>
    /\ UNCHANGED poolVars

\* lines 476-490, from the report verifyIssues returned (or the draft, when
\* verification was skipped) to the end of the attempt
Finish(g, d, vl, outcome, calls, r) ==
    IF ReconcileThrows(r)
    THEN Discard(g, d, vl, outcome, calls, r)
    ELSE Resolve(g, d, vl, outcome, calls, r)

\* lines 440-490 on a response without issues: verification is skipped
GenerateWithoutIssues ==
    /\ pc = "generating"
    /\ \E j \in ReportJsons, f \in BOOLEAN :
          LET text == StripFence([fenced |-> f, json |-> j])
              d == Normalise(JsonParse(text))
          IN /\ ~ParseThrows(text)
             /\ ~NeedsVerification(d)
             /\ Finish(j, d, <<>>, "skipped", 0, d)

\* lines 440-467 and 276-293 on a response with issues: the primary verifier
\* call is sent
GenerateWithIssues ==
    /\ pc = "generating"
    /\ \E j \in ReportJsons, f \in BOOLEAN :
          LET text == StripFence([fenced |-> f, json |-> j])
              d == Normalise(JsonParse(text))
          IN /\ ~ParseThrows(text)
             /\ NeedsVerification(d)
             /\ generated' = j
             /\ draft' = d
             /\ verifierCalls' = 1
             /\ pc' = "verifying"
    /\ UNCHANGED <<apiKey, glossaryText, wrapper, retries, delay, slept, failures,
                   emptyBodies, discards, analyses, verdicts, verifyOutcome, verified, sanitized,
                   report, error>>
    /\ UNCHANGED poolVars

VerifierThrowsFailsAttempt ==
    /\ pc = "verifying"
    /\ Continue(Caught(Control, "BackendError"))
    /\ UNCHANGED <<emptyBodies, discards>>

\* lines 294-316: the primary verifier call throws. The fallback call names
\* LLM_FALLBACK_MODEL_ID in its argument, which raises before any request is
\* made; the inner catch returns the initial report.
VerifierThrows ==
    /\ pc = "verifying"
    /\ ~FallbackIdResolves
    /\ Finish(generated, draft, <<>>, "callsFailed", verifierCalls, draft)

\* lines 319-323: the verifier response has no text
VerifierEmpty ==
    /\ pc = "verifying"
    /\ Finish(generated, draft, <<>>, "empty", verifierCalls, draft)

\* lines 325-370: the verifier response has a text
VerifierResponds ==
    /\ pc = "verifying"
    /\ \E text \in VerifierTexts(draft.issues) :
          LET m == MergeVerdicts(draft, text)
          IN Finish(generated, draft,
                    IF m.outcome = "parseThrew" THEN <<>>
                    ELSE VerifiedIssuesMap(JsonParse(StripFence(text))),
                    m.outcome, verifierCalls, m.report)

Next ==
    \/ MissingApiKey
    \/ BeginRequest
    \/ BackoffElapsed
    \/ ImagesFail
    \/ ImagesLoaded
    \/ GenerateThrows
    \/ GenerateEmpty
    \/ GenerateUnparsable
    \/ GenerateWithoutIssues
    \/ GenerateWithIssues
    \/ VerifierThrows
    \/ VerifierEmpty
    \/ VerifierResponds

Spec == Init /\ [][Next]_vars

\* ------------------------------------------------------------------------
\* Several callTranslationQaLLM calls side by side.  Each call is followed
\* through one analysis attempt (runAnalysis 382-491); the steps are the
\* points where the attempt is suspended on a promise.
\* ------------------------------------------------------------------------
requestVars == <<apiKey, glossaryText, pc, wrapper, retries, delay, slept, failures,
                 emptyBodies, discards, analyses, verifierCalls, generated, draft, verdicts,
                 verifyOutcome, verified, sanitized, report, error>>

NoSkills == [kind |-> "none"]
NoText == [kind |-> "none"]

\* the glossary text of the payloads of the pool
PoolGlossary == Str(<<"[ID:", "TERM-", "1", "]">>)

NewRequest(sceneHint, targetLang) ==
    [pc |-> "entry", sceneHint |-> sceneHint, targetLang |-> targetLang,
     skills |-> NoSkills, generated |-> NoReport, draft |-> NoReport,
     verifierText |-> NoText, report |-> NoReport]

\* the generation responses of the pool: no issue, and a rejected Style issue
\* beside a Terminology issue whose id is not in the glossary
PoolReportJsons ==
    { ReportJson(EchoHeader, <<>>, TRUE),
      ReportJson(EchoHeader,
                 << Issue("I1", "Style", "Critical", undefined, OneSuggestion),
                    Issue("I2", "Terminology", "Critical", Term9, OneSuggestion) >>,
                 TRUE) }

PoolVerifierTexts ==
    { [fenced |-> FALSE,
       json |-> VerificationJson(
           << Verdict("I1", "false", TextReason(<<Word("negligible")>>), "", undefined) >>,
           TRUE)],
      [fenced |-> FALSE, json |-> Garbage] }

\* line 459 for the payload of a call of the pool
StampFor(sceneHint, r) == [r EXCEPT !.screenshotId = Str(sceneHint)]

\* lines 476-486
Reconcile(r) ==
    Grade(enforceScoreConsistency(sanitizeReport(r, PoolGlossary)))

\* lines 374-387: the key is there; the attempt waits for its images
PoolBegin(r) ==
    /\ pool[r].pc = "entry"
    /\ apiKey
    /\ pool' = [pool EXCEPT ![r].pc = "images"]
    /\ UNCHANGED <<registry, images>>
    /\ UNCHANGED requestVars

\* lines 384-387: an image fetch fails and the attempt ends
PoolImagesFail(r) ==
    /\ pool[r].pc = "images"
    /\ pool' = [pool EXCEPT ![r].pc = "failed"]
    /\ UNCHANGED <<registry, images>>
    /\ UNCHANGED requestVars

\* lines 389-438: the skills are retrieved, the prompts built, the generation
\* call sent
PoolRetrieve(r) ==
    /\ pool[r].pc = "images"
    /\ pool' = [pool EXCEPT
                  ![r].pc = "generating",
                  ![r].skills = retrieveSkills(registry, pool[r].sceneHint,
                                               pool[r].targetLang)]
    /\ registry' = RegistryAfterRetrieve(registry, pool[r].targetLang)
    /\ UNCHANGED images
    /\ UNCHANGED requestVars

\* lines 440-490 on a response without issues
PoolGenerateWithoutIssues(r) ==
    /\ pool[r].pc = "generating"
    /\ \E j \in PoolReportJsons :
          LET d == StampFor(pool[r].sceneHint, Normalise(j))
          IN /\ ~NeedsVerification(d)
             /\ pool' = [pool EXCEPT ![r].pc = "resolved",
                                     ![r].generated = j,
                                     ![r].draft = d,
                                     ![r].report = Reconcile(d)]
    /\ UNCHANGED <<registry, images>>
    /\ UNCHANGED requestVars

\* lines 440-467 and 276-293 on a response with issues
PoolGenerateWithIssues(r) ==
    /\ pool[r].pc = "generating"
    /\ \E j \in PoolReportJsons :
          LET d == StampFor(pool[r].sceneHint, Normalise(j))
          IN /\ NeedsVerification(d)
             /\ pool' = [pool EXCEPT ![r].pc = "verifying",
                                     ![r].generated = j,
                                     ![r].draft = d]
    /\ UNCHANGED <<registry, images>>
    /\ UNCHANGED requestVars

\* lines 294-323: no verifier response, or an empty one
PoolVerifierFails(r) ==
    /\ pool[r].pc = "verifying"
    /\ pool' = [pool EXCEPT ![r].pc = "resolved",
                            ![r].report = Reconcile(pool[r].draft)]
    /\ UNCHANGED <<registry, images>>
    /\ UNCHANGED requestVars

\* lines 325-370 and 476-490
PoolVerifierResponds(r) ==
    /\ pool[r].pc = "verifying"
    /\ \E text \in PoolVerifierTexts :
          pool' = [pool EXCEPT
                     ![r].pc = "resolved",
                     ![r].verifierText = text,
                     ![r].report = Reconcile(MergeVerdicts(pool[r].draft, text).report)]
    /\ UNCHANGED <<registry, images>>
    /\ UNCHANGED requestVars

NextPool ==
    \/ \E r \in DOMAIN pool : PoolBegin(r)
    \/ \E r \in DOMAIN pool : PoolImagesFail(r)
    \/ \E r \in DOMAIN pool : PoolRetrieve(r)
    \/ \E r \in DOMAIN pool : PoolGenerateWithoutIssues(r)
    \/ \E r \in DOMAIN pool : PoolGenerateWithIssues(r)
    \/ \E r \in DOMAIN pool : PoolVerifierFails(r)
    \/ \E r \in DOMAIN pool : PoolVerifierResponds(r)

\* the single call stays at its entry
InitPool ==
    /\ InitRequest
    /\ apiKey
    /\ glossaryText = undefined
    /\ registry = SkillRegistry
    /\ images = <<>>

\* one call, on every scene hint and target language
InitSkills ==
    /\ InitPool
    /\ pool \in [{1} -> { NewRequest(h, l) : h \in SceneHints, l \in TargetLanguages }]

SpecSkills == InitSkills /\ [][NextPool]_vars

\* MaxRequests calls side by side
InitConcurrent ==
    /\ InitPool
    /\ pool \in [1..MaxRequests ->
                   { NewRequest(h, l) : h \in ConcurrentHints, l \in TargetLanguages }]

SpecConcurrent == InitConcurrent /\ [][NextPool]_vars

\* ------------------------------------------------------------------------
\* One call under fair scheduling: every pending fetch, backend call and
\* timer eventually returns, throws or fires, so a step that can be taken is
\* eventually taken.  The responses are those of the pool and the ones
\* without the overall object; a verifier response carries at most
\* MaxLiveVerdicts verdicts.
\* ------------------------------------------------------------------------
LiveReportJsons == PoolReportJsons \cup IncompleteJsons

NextLive ==
    \/ MissingApiKey
    \/ BeginRequest
    \/ BackoffElapsed
    \/ ImagesFail
    \/ ImagesLoaded
    \/ GenerateThrows
    \/ GenerateEmpty
    \/ GenerateUnparsable
    \/ (GenerateWithoutIssues /\ generated' \in LiveReportJsons)
    \/ (GenerateWithIssues /\ generated' \in LiveReportJsons)
    \/ VerifierThrows
    \/ VerifierEmpty
    \/ (VerifierResponds /\ Len(verdicts') <= MaxLiveVerdicts)

SpecLive == Init /\ [][NextLive]_vars /\ WF_vars(NextLive)

\* ------------------------------------------------------------------------
\* processImageUrl (127-176): the two image fetches of one attempt
\* (runAnalysis 384-387).  A URL is a sequence of characters; a data URL is a
\* sequence of tokens; a MIME type is the sequence of its tokens.
\* ------------------------------------------------------------------------
NoBlob == [kind |-> "none"]
NoImage == [kind |-> "none"]

\* line 148
allowedTypes ==
    { <<"image/png">>, <<"image/jpeg">>, <<"image/webp">>, <<"image/heic">>,
      <<"image/heif">> }

PngSuffix == <<".", "p", "n", "g">>

\* String.prototype.endsWith
EndsWith(text, suffix) ==
    /\ Len(text) >= Len(suffix)
    /\ SubSeq(text, Len(text) - Len(suffix) + 1, Len(text)) = suffix

EndsWithPngCaseSensitive(url) == EndsWith(url, PngSuffix)

\* line 154: url.toLowerCase().endsWith('.png')
EndsWithPng(url) == EndsWith(StringToLowerCase(url), PngSuffix)

\* FileReader.readAsDataURL (line 170): "data:" + type + ";base64," + the
\* encoded bytes; a blob without a type is read as application/octet-stream
ReadAsDataUrl(blob) ==
    <<"data:">>
    \o (IF blob.type = <<>> THEN <<"application/octet-stream">> ELSE blob.type)
    \o <<";base64,">>
    \o blob.data

\* line 140: the positions p at which /^data:(.+);base64,(.+)$/ can place
\* ";base64,": something stands between "data:" and p, and something after p
SeparatorPositions(text) ==
    { p \in 3..(Len(text) - 1) : text[1] = "data:" /\ text[p] = ";base64," }

DataUrlMatches(text) == SeparatorPositions(text) # {}

\* the first group is greedy: it ends at the last such position
DataUrlGroups(text) ==
    LET p == CHOOSE q \in SeparatorPositions(text) :
                 \A o \in SeparatorPositions(text) : o <= q
    IN [mimeType |-> SubSeq(text, 2, p - 1), data |-> SubSeq(text, p + 1, Len(text))]

\* lines 150-159
CoerceMimeType(mimeType, url) ==
    IF mimeType \in allowedTypes THEN mimeType
    ELSE IF EndsWithPng(url) THEN <<"image/png">>
    ELSE <<"image/jpeg">>

\* lines 143-164: the value the promise resolves with
ProcessedImage(text, url) ==
    [mimeType |-> CoerceMimeType(DataUrlGroups(text).mimeType, url),
     data |-> DataUrlGroups(text).data]

\* the URLs of the payload: "" (a missing image), names with and without
\* the .png ending in either case, and a query after the ending
ImageUrls ==
    { <<>>,
      <<"a", ".", "p", "n", "g">>,
      <<"A", ".", "P", "N", "G">>,
      <<"a", ".", "j", "p", "g">>,
      <<"a", ".", "p", "n", "g", "?", "v">> }

BlobTypes ==
    allowedTypes
    \cup { <<>>, <<"application/octet-stream">>, <<"image/gif">>,
           <<"image/png", ";charset=binary">> }

\* the bodies a fetch may return: bytes of every type, and a body of no bytes
Blobs ==
    { [type |-> t, data |-> <<"iVBOR">>] : t \in BlobTypes }
    \cup { [type |-> <<"image/png">>, data |-> <<>>] }

NewImage(url) ==
    [url |-> url, pc |-> "fetching", blob |-> NoBlob, result |-> NoImage,
     error |-> "none"]

\* line 129: fetch rejects
FetchThrows(i) ==
    /\ images[i].pc = "fetching"
    /\ images' = [images EXCEPT ![i].pc = "failed", ![i].error = "FetchError"]
    /\ UNCHANGED <<pool, registry>>
    /\ UNCHANGED requestVars

\* lines 130-132: the response is not ok
FetchNotOk(i) ==
    /\ images[i].pc = "fetching"
    /\ images' = [images EXCEPT ![i].pc = "failed", ![i].error = "HttpError"]
    /\ UNCHANGED <<pool, registry>>
    /\ UNCHANGED requestVars

\* lines 133-170: the body is there and the reader is started
FetchResponds(i) ==
    /\ images[i].pc = "fetching"
    /\ \E blob \in Blobs :
          images' = [images EXCEPT ![i].pc = "reading", ![i].blob = blob]
    /\ UNCHANGED <<pool, registry>>
    /\ UNCHANGED requestVars

\* line 169: reader.onerror
ReaderErrors(i) ==
    /\ images[i].pc = "reading"
    /\ images' = [images EXCEPT ![i].pc = "failed", ![i].error = "ReaderError"]
    /\ UNCHANGED <<pool, registry>>
    /\ UNCHANGED requestVars

\* lines 137-168: reader.onloadend
ReaderLoads(i) ==
    /\ images[i].pc = "reading"
    /\ LET base64String == ReadAsDataUrl(images[i].blob)
       IN IF DataUrlMatches(base64String)
          THEN images' = [images EXCEPT
                            ![i].pc = "done",
                            ![i].result = ProcessedImage(base64String, images[i].url)]
          ELSE images' = [images EXCEPT ![i].pc = "failed",
                                        ![i].error = "InvalidDataUrl"]
    /\ UNCHANGED <<pool, registry>>
    /\ UNCHANGED requestVars

NextImages ==
    \/ \E i \in DOMAIN images : FetchThrows(i)
    \/ \E i \in DOMAIN images : FetchNotOk(i)
    \/ \E i \in DOMAIN images : FetchResponds(i)
    \/ \E i \in DOMAIN images : ReaderErrors(i)
    \/ \E i \in DOMAIN images : ReaderLoads(i)

\* lines 384-387: the English and the target-language screenshot
InitImages ==
    /\ InitRequest
    /\ apiKey
    /\ glossaryText = undefined
    /\ pool = <<>>
    /\ registry = SkillRegistry
    /\ images \in [{"en", "de"} -> { NewImage(u) : u \in ImageUrls }]

SpecImages == InitImages /\ [][NextImages]_vars

\* ------------------------------------------------------------------------
\* Properties
\* ------------------------------------------------------------------------
MaxAttempts == DefaultRetries + 1

Resolved == pc = "resolved"

\* the waits of one wrapper, in order: InitialDelay, then twice that, ...
RECURSIVE BackoffSequence(_, _)
BackoffSequence(n, d) ==
    IF n = 0 THEN <<>> ELSE <<d>> \o BackoffSequence(n - 1, d * BackoffFactor)

IsPrefix(a, b) == Len(a) <= Len(b) /\ SubSeq(b, 1, Len(a)) = a

\* C1: when all three attempts on the primary model have failed, the analysis
\* is repeated against the fallback model with a fresh retry budget; the
\* fallback model is never invoked before the third failure of the primary,
\* and the caller sees an error only after three failed fallback analyses.
C1_FallbackRepeatsAnalysis ==
    /\ analyses.fallback > 0 => failures.primary = MaxAttempts
    /\ failures.primary = MaxAttempts => analyses.fallback >= 1
    /\ (pc = "rejected" /\ apiKey) => analyses.fallback = MaxAttempts

\* C2: for one model, every failure of an analysis attempt is followed by a
\* new attempt, at most DefaultRetries times; the waits are 1000 ms and then
\* 2000 ms, and the third failure leaves the wrapper instead of being retried.
C2_RetryBudget ==
    /\ analyses.primary <= MaxAttempts
    /\ failures.primary <= MaxAttempts
    /\ IsPrefix(slept, BackoffSequence(DefaultRetries, InitialDelay)
                       \o BackoffSequence(DefaultRetries, InitialDelay))
    /\ wrapper = "primary" =>
          /\ Len(slept) = failures.primary
          /\ failures.primary <= DefaultRetries
          /\ pc # "rejected" \/ ~apiKey
          /\ pc = "backoff" => analyses.primary = failures.primary
          /\ pc \in {"images", "generating", "verifying", "resolved"} =>
                 analyses.primary = failures.primary + 1
    /\ wrapper = "fallback" =>
          /\ failures.primary = MaxAttempts
          /\ analyses.primary = MaxAttempts
          /\ SubSeq(slept, 1, DefaultRetries) = <<1000, 2000>>

C2_ThirdFailureLeaves ==
    /\ failures.primary = MaxAttempts
    /\ analyses.primary = MaxAttempts
    /\ SubSeq(slept, 1, DefaultRetries) = <<1000, 2000>>

\* C3: whenever verifyIssues cannot obtain or process a verifier response
\* (the calls throw, the body is empty or no JSON, or the parse-and-merge
\* block raises), the report it returns equals the report it was given.
VerifierFailed == verifyOutcome \in {"callsFailed", "empty", "parseThrew", "mergeThrew"}

C3_VerifierFailureIsNoOp ==
    (Resolved /\ VerifierFailed) => verified = draft

\* C4: the quality label of a returned report is determineStrictQuality of
\* the report after verification, sanitization and score enforcement, not
\* the label of the generation response.
C4_StrictLabel ==
    Resolved =>
        /\ report.overall.qualityLevel =
               determineStrictQuality(enforceScoreConsistency(sanitized))
        /\ report.overall.qualityLevel = determineStrictQuality(report)

C4_LabelReplaced ==
    /\ Resolved
    /\ Len(report.issues) > 0
    /\ generated.overall.qualityLevel = "Perfect"
    /\ report.overall.qualityLevel = "Critical"

\* the tags /\[ID:TERM-\d+\]/ found in a glossary text; none in an absent one
TagsOf(g) == IF g.def THEN GlossaryTags(g.s) ELSE {}

\* "[ID:" + glossaryTermId + "]" is one of the tags of the glossary
TagPresent(issue, g) ==
    /\ issue.glossaryTermId.def
    /\ (<<"[ID:">> \o issue.glossaryTermId.s \o <<"]">>) \in TagsOf(g)

TerminologyIssues(r) == { k \in DOMAIN r.issues : r.issues[k].issueCategory = "Terminology" }

AllUngrounded(r, g) == \A k \in TerminologyIssues(r) : ~TagPresent(r.issues[k], g)

HallucinationGuardResult ==
    /\ sanitized.overall.scores.terminology = MaxTerminologyScore
    /\ \A k \in TerminologyIssues(verified) :
          /\ sanitized.issues[k].issueCategory = "Style"
          /\ sanitized.issues[k].severity = "Minor"

\* C5 as stated: for every glossary text, present, empty or absent, when no
\* Terminology issue has its id among the tags of the glossary, the
\* terminology score after sanitizeReport is 5 and each of those issues is
\* Style and Minor.
C5_AnyGlossary ==
    (Resolved /\ AllUngrounded(verified, glossaryText)) => HallucinationGuardResult

\* C5 amended: the same, for every non-empty glossary text.
C5_UngroundedDowngraded ==
    (Resolved /\ Truthy(glossaryText) /\ AllUngrounded(verified, glossaryText))
        => HallucinationGuardResult

C5_ScoreForced ==
    /\ Resolved
    /\ Truthy(glossaryText)
    /\ TerminologyIssues(verified) # {}
    /\ AllUngrounded(verified, glossaryText)
    /\ verified.overall.scores.terminology # MaxTerminologyScore
    /\ sanitized.overall.scores.terminology = MaxTerminologyScore

IsDowngradeOf(after, before) ==
    /\ after.issueCategory = "Style"
    /\ after.severity = "Minor"
    /\ IsPrefix(<<AutoDowngradePrefix>> \o before.description, after.description)
    /\ after.glossaryTermId = undefined
    /\ after.glossarySource = DowngradedSource
    /\ after.id = before.id
    /\ after.suggestionsTarget = before.suggestionsTarget
    /\ after.suggestionRationale = before.suggestionRationale

SanitizedAsStated(g) ==
    /\ Len(sanitized.issues) = Len(verified.issues)
    /\ \A k \in TerminologyIssues(verified) :
          IF TagPresent(verified.issues[k], g)
          THEN sanitized.issues[k] = verified.issues[k]
          ELSE IsDowngradeOf(sanitized.issues[k], verified.issues[k])

\* C6 as stated: sanitizeReport leaves a Terminology issue unchanged when the
\* tag of its id is in the glossary text, and otherwise downgrades it to
\* Style and Minor, prefixes its description, clears its term id and sets
\* its glossary source to the sentinel.
C6_AnyGlossary ==
    Resolved => SanitizedAsStated(glossaryText)

\* C6 amended: so it is when the glossary text is non-empty; when the
\* glossary text is absent or empty, every issue is left unchanged.
C6_GroundedKeptElseDowngraded ==
    Resolved =>
        IF Truthy(glossaryText)
        THEN SanitizedAsStated(glossaryText)
        ELSE sanitized.issues = verified.issues

C6_BothCases ==
    /\ Resolved
    /\ Truthy(glossaryText)
    /\ \E k \in TerminologyIssues(verified) : TagPresent(verified.issues[k], glossaryText)
    /\ \E k \in TerminologyIssues(verified) :
          /\ ~TagPresent(verified.issues[k], glossaryText)
          /\ sanitized.issues[k].issueCategory = "Style"

\* the verdict the merge uses for an issue: the last one of its id
VerdictOf(issue) == VerdictFor(verdicts, issue.id)

RejectedByVerifier(issue) ==
    /\ HasVerdict(verdicts, issue.id)
    /\ VerdictOf(issue).isValid = "false"
    /\ VerdictOf(issue).reason.type # "number"

\* the reason names one of the phrases, in any letter case
NamesHallucination(v) ==
    \E ph \in HallucinationPhrases :
        \E p \in 1..(Len(v.reason.words) - Len(ph) + 1) :
            \A i \in 1..Len(ph) : v.reason.words[p + i - 1].w = ph[i].w

InReport(id) == \E j \in DOMAIN report.issues : report.issues[j].id = id

RescuedInReport(issue) ==
    \E j \in DOMAIN report.issues :
        /\ report.issues[j].id = issue.id
        /\ report.issues[j].severity = "Minor"
        /\ IsPrefix(<<ReviewPrefix>> \o issue.description, report.issues[j].description)

RescueCase(issue) ==
    /\ issue.issueCategory \in {"Style", "Formatting"}
    /\ RejectedByVerifier(issue)
    /\ ~NamesHallucination(VerdictOf(issue))

\* C7 as stated: every Style or Formatting issue whose verdict has isValid
\* false and a reason with none of the phrases is in the returned report,
\* Minor, its description prefixed with the review marker.
C7_AnyResponse ==
    Resolved =>
        \A k \in DOMAIN draft.issues :
            RescueCase(draft.issues[k]) => RescuedInReport(draft.issues[k])

\* C7 amended: so it is whenever verifyIssues merged the verifier response
\* without raising.
C7_RescuedWhenMerged ==
    (Resolved /\ verifyOutcome = "merged") =>
        \A k \in DOMAIN draft.issues :
            RescueCase(draft.issues[k]) => RescuedInReport(draft.issues[k])

C7_FormattingRescued ==
    /\ Resolved
    /\ verifyOutcome = "merged"
    /\ \E k \in DOMAIN draft.issues :
          /\ RescueCase(draft.issues[k])
          /\ draft.issues[k].issueCategory = "Formatting"
          /\ draft.issues[k].severity = "Critical"
          /\ RescuedInReport(draft.issues[k])

DropCase(issue) ==
    /\ issue.issueCategory \in {"Layout", "Terminology", "Mistranslation", "Other"}
    /\ RejectedByVerifier(issue)

\* C8 as stated: no Layout, Terminology, Mistranslation or Other issue whose
\* verdict has isValid false is in the returned report.
C8_AnyResponse ==
    Resolved =>
        \A k \in DOMAIN draft.issues :
            DropCase(draft.issues[k]) => ~InReport(draft.issues[k].id)

\* C8 amended: so it is whenever verifyIssues merged the verifier response
\* without raising.
C8_DroppedWhenMerged ==
    (Resolved /\ verifyOutcome = "merged") =>
        \A k \in DOMAIN draft.issues :
            DropCase(draft.issues[k]) => ~InReport(draft.issues[k].id)

C8_LayoutDropped ==
    /\ Resolved
    /\ verifyOutcome = "merged"
    /\ Len(report.issues) = 1
    /\ \E k \in DOMAIN draft.issues :
          /\ DropCase(draft.issues[k])
          /\ draft.issues[k].issueCategory = "Layout"
          /\ ~NamesHallucination(VerdictOf(draft.issues[k]))

\* C9: every issue of a returned report has a non-empty suggestionsTarget.
C9_SuggestionsNonEmpty ==
    Resolved =>
        \A j \in DOMAIN report.issues :
            /\ report.issues[j].suggestionsTarget.def
            /\ report.issues[j].suggestionsTarget.s # <<>>

\* C10: every returned report carries the screenshotId of the request,
\* whatever the model echoed, whichever attempt produced it, verified or not.
C10_RequestIdStamped ==
    Resolved => report.screenshotId = Str(<<RequestId>>)

C10_EchoOverwritten ==
    /\ Resolved
    /\ generated.screenshotId.def
    /\ generated.screenshotId # Str(<<RequestId>>)
    /\ verifyOutcome = "merged"
    /\ analyses.primary = MaxAttempts

\* the errors of transport and protocol an analysis attempt may end with
TransportOrProtocolErrors == {"ImageError", "BackendError", "EmptyResponse", "InvalidJson"}

IsCompleteReport(r) ==
    /\ r # NoReport
    /\ r.screenshotId.def
    /\ r.overall.qualityLevel \in {"Critical", "Poor", "Average", "Good", "Excellent"}
    /\ DOMAIN r.issues = 1..Len(r.issues)

\* C11: the call fails towards the caller only when the API key is missing,
\* or when every attempt on the primary model and every attempt on the
\* fallback model has failed with a transport or protocol error; every other
\* run resolves with a complete report.
C11_FailsOnlyOnKeyOrExhaustion ==
    /\ pc = "rejected" =>
          \/ ~apiKey /\ error = "ConfigurationError"
          \/ /\ analyses.primary = MaxAttempts
             /\ analyses.fallback = MaxAttempts
             /\ error \in TransportOrProtocolErrors
    /\ Resolved => IsCompleteReport(report)

\* C12: without an API key the call raises the configuration error before
\* any image fetch or backend call; the error is neither retried nor sent to
\* the fallback model: no attempt, no wait.
C12_MissingKeyFailsAtOnce ==
    ~apiKey =>
        /\ pc \in {"entry", "rejected"}
        /\ pc = "rejected" => error = "ConfigurationError"
        /\ analyses = [primary |-> 0, fallback |-> 0]
        /\ failures = [primary |-> 0, fallback |-> 0]
        /\ slept = <<>>
        /\ verifierCalls = 0
        /\ wrapper = "primary" /\ retries = DefaultRetries

C12_ConfigurationErrorRaised ==
    /\ ~apiKey
    /\ pc = "rejected"
    /\ error = "ConfigurationError"
    /\ analyses.primary = 0

\* C13: sanitizeReport is idempotent: on the report verifyIssues returned and
\* for every glossary text, a second application changes no field of the
\* result of the first.
C13_SanitizeIdempotent ==
    Resolved =>
        \A g \in Glossaries :
            sanitizeReport(sanitizeReport(verified, g), g) = sanitizeReport(verified, g)

C13_DowngradedOnce ==
    /\ Resolved
    /\ Truthy(glossaryText)
    /\ \E k \in TerminologyIssues(verified) :
          /\ sanitized.issues[k].issueCategory = "Style"
          /\ sanitized.issues[k].description =
                 <<AutoDowngradePrefix>> \o verified.issues[k].description
                                         \o <<AutoDowngradeSuffix>>
    /\ TerminologyIssues(sanitized) # {}
    /\ sanitizeReport(sanitized, glossaryText) = sanitized

\* the run of C14: two generation calls have returned an empty body, and
\* these are the two analysis attempts that have failed
TwoEmptyBodies ==
    /\ emptyBodies = 2
    /\ failures.primary = 2

\* C14 as stated: when the generation call returned an empty body twice and
\* the next generation call succeeds, that call is the first attempt of the
\* fallback model.
C14_ThirdCallIsFallback ==
    (Resolved /\ TwoEmptyBodies) =>
        /\ wrapper = "fallback"
        /\ analyses.fallback = 1
        /\ error = "none"

\* C14 amended: after two empty bodies the next generation call is the third
\* attempt of the primary model, made after waits of 1000 ms and 2000 ms; the
\* fallback model is not invoked and no error is surfaced.
C14_ThirdCallIsPrimary ==
    TwoEmptyBodies =>
        /\ wrapper = "primary"
        /\ analyses.fallback = 0
        /\ slept = BackoffSequence(DefaultRetries, InitialDelay)
        /\ error = "none" /\ pc # "rejected"
        /\ pc # "backoff" => analyses.primary = MaxAttempts

C14_ResolvedOnThirdPrimaryAttempt ==
    /\ Resolved
    /\ TwoEmptyBodies
    /\ analyses.primary = MaxAttempts
    /\ analyses.fallback = 0
    /\ report.screenshotId = Str(<<RequestId>>)

IdsOf(issues) == { issues[k].id : k \in DOMAIN issues }

\* C18: in a successful attempt the stages run in this order, none skipped:
\* generation and parse, verification (only when the draft has issues),
\* sanitizeReport, enforceScoreConsistency, determineStrictQuality with the
\* label written last; sanitization sees only the issues verification
\* returned and the label is computed on the sanitized report.
C18_StagesInOrder ==
    Resolved =>
        /\ (verifyOutcome = "skipped") <=> (draft.issues = <<>>)
        /\ verifyOutcome = "skipped" => verified = draft
        /\ verifyOutcome = "merged" =>
               verified.issues = FilterIssues(draft.issues, verdicts)
        /\ sanitized = sanitizeReport(verified, glossaryText)
        /\ IdsOf(sanitized.issues) = IdsOf(verified.issues)
        /\ report.issues = sanitized.issues
        /\ report.overall.scores = enforceScoreConsistency(sanitized).overall.scores
        /\ report.overall.qualityLevel = determineStrictQuality(sanitized)

C18_DroppedThenDowngraded ==
    /\ Resolved
    /\ verifyOutcome = "merged"
    /\ Len(verified.issues) < Len(draft.issues)
    /\ sanitized.issues # verified.issues
    /\ determineStrictQuality(verified) = "Critical"
    /\ report.overall.qualityLevel = "Good"

\* what the claim says the merge makes of an issue with a validating verdict
RefinedAsStated(issue, v) ==
    [issue EXCEPT
       !.severity = IF v.refinedSeverity # "" THEN v.refinedSeverity
                    ELSE issue.severity,
       !.suggestionRationale = IF Truthy(v.refinedRationale) THEN v.refinedRationale.s
                               ELSE issue.suggestionRationale]

MergeAsStated ==
    \A k \in DOMAIN draft.issues :
        LET issue == draft.issues[k]
        IN /\ ~HasVerdict(verdicts, issue.id) =>
                 \E j \in DOMAIN verified.issues : verified.issues[j] = issue
           /\ (HasVerdict(verdicts, issue.id) /\ VerdictOf(issue).isValid = "true") =>
                 \E j \in DOMAIN verified.issues :
                     verified.issues[j] = RefinedAsStated(issue, VerdictOf(issue))

\* C19 as stated: the merge keeps an issue without a verdict unchanged, and
\* keeps an issue whose verdict has isValid true, with its severity and its
\* rationale replaced by the refined ones when present and nothing else
\* changed.
C19_AnyResponse ==
    Resolved => MergeAsStated

\* C19 amended: so it is whenever verifyIssues merged the verifier response
\* without raising.
C19_KeptAndRefinedWhenMerged ==
    (Resolved /\ verifyOutcome = "merged") => MergeAsStated

C19_OneKeptOneRefined ==
    /\ Resolved
    /\ verifyOutcome = "merged"
    /\ \E k \in DOMAIN draft.issues :
          /\ ~HasVerdict(verdicts, draft.issues[k].id)
          /\ \E j \in DOMAIN verified.issues : verified.issues[j] = draft.issues[k]
    /\ \E k \in DOMAIN draft.issues :
          /\ HasVerdict(verdicts, draft.issues[k].id)
          /\ VerdictOf(draft.issues[k]).isValid = "true"
          /\ VerdictOf(draft.issues[k]).refinedSeverity = "Critical"
          /\ draft.issues[k].severity = "Major"
          /\ \E j \in DOMAIN verified.issues :
                /\ verified.issues[j].id = draft.issues[k].id
                /\ verified.issues[j].severity = "Critical"
                /\ verified.issues[j].suggestionRationale = <<"legal">>

\* C20: in an attempt a verifier call is made if and only if the parsed draft
\* has at least one issue; a response without the issues field gets the empty
\* list and no verifier call.
C20_VerifierCalledIffIssues ==
    pc \in {"verifying", "resolved"} =>
        /\ (verifierCalls > 0) <=> (Len(draft.issues) > 0)
        /\ ~generated.hasIssues => (draft.issues = <<>> /\ verifierCalls = 0)

C20_OmittedIssuesNoCall ==
    /\ Resolved
    /\ ~generated.hasIssues
    /\ draft.issues = <<>>
    /\ verifierCalls = 0
    /\ verifyOutcome = "skipped"

Retrieved(r) == pool[r].skills # NoSkills

\* the report a call produces when it runs alone on the same payload and the
\* same backend responses
RunAlone(sceneHint, j, text) ==
    LET d == [Normalise(j) EXCEPT !.screenshotId = Str(sceneHint)]
    IN IF Len(d.issues) = 0 \/ text = NoText
       THEN Grade(enforceScoreConsistency(sanitizeReport(d, PoolGlossary)))
       ELSE Grade(enforceScoreConsistency(
                sanitizeReport(MergeVerdicts(d, text).report, PoolGlossary)))

\* C15: whatever the number of calls that run side by side and however their
\* steps interleave, no call writes the skill registry or the keyword tables,
\* each call retrieves the skills it would retrieve alone, and its final
\* report is the one it produces alone on the same backend responses.
C15_CallsDoNotInterfere ==
    /\ registry = SkillRegistry
    /\ \A r \in DOMAIN pool :
          /\ Retrieved(r) =>
                pool[r].skills = retrieveSkills(SkillRegistry, pool[r].sceneHint,
                                                pool[r].targetLang)
          /\ pool[r].pc = "resolved" =>
                pool[r].report = RunAlone(pool[r].sceneHint, pool[r].generated,
                                          pool[r].verifierText)

C15_TwoCallsInterleaved ==
    /\ Cardinality(DOMAIN pool) >= 2
    /\ pool[1].pc = "resolved" /\ pool[1].targetLang = "fr-FR"
    /\ Len(pool[1].report.issues) = 2
    /\ pool[2].pc = "verifying" /\ pool[2].targetLang = "de-DE"
    /\ pool[2].sceneHint # pool[1].sceneHint
    /\ Len(pool[2].skills.generalSkills) = Len(GENERAL_SKILLS)
    /\ Len(pool[1].skills.generalSkills) < Len(GENERAL_SKILLS)

\* the order of the categories the claim gives
ClaimedSceneOrder ==
    <<"navigation", "form", "dashboard", "modal", "table", "settings", "error_page">>

KeywordsOf(scene) ==
    SCENE_KEYWORDS[CHOOSE k \in DOMAIN SCENE_KEYWORDS : SCENE_KEYWORDS[k].scene = scene].keywords

\* the number of keywords of a category that occur in the lower-cased text
HitsOf(scene, text) == HitCount(KeywordsOf(scene), StringToLowerCase(text))

SceneAsStated(text, result) ==
    IF \A i \in DOMAIN ClaimedSceneOrder : HitsOf(ClaimedSceneOrder[i], text) = 0
    THEN result = "generic"
    ELSE \E i \in DOMAIN ClaimedSceneOrder :
            /\ result = ClaimedSceneOrder[i]
            /\ HitsOf(result, text) > 0
            /\ \A j \in DOMAIN ClaimedSceneOrder :
                  /\ HitsOf(ClaimedSceneOrder[j], text) <= HitsOf(result, text)
                  /\ j < i => HitsOf(ClaimedSceneOrder[j], text) < HitsOf(result, text)

SettingsHint == <<"s", "e", "t", "t", "i", "n", "g", "s", " ", "p", "a", "g", "e", " ", "w", "i", "t", "h", " ", "t", "o", "g", "g", "l", "e", " ", "s", "w", "i", "t", "c", "h", "e", "s">>

\* C16: detectSceneType returns the category with the greatest positive
\* number of keywords occurring in the lower-cased text, the first of them in
\* table order when several have that number, and generic exactly when no
\* keyword of any category occurs.
C16_FirstBestScene ==
    \A r \in DOMAIN pool :
        Retrieved(r) => SceneAsStated(pool[r].sceneHint, pool[r].skills.sceneType)

C16_SettingsExample ==
    \E r \in DOMAIN pool :
        /\ Retrieved(r)
        /\ pool[r].sceneHint = SettingsHint
        /\ pool[r].skills.sceneType = "settings"
        /\ HitsOf("settings", SettingsHint) = 3

HasSkill(skills, name) == \E i \in DOMAIN skills : skills[i] = name

OtherSkills(skills) == SelectSeq(skills, LAMBDA n : n # "compound_word_detection")

\* C17: compound_word_detection is among the general skills retrieveSkills
\* returns if and only if the target language is de-DE; every other general
\* skill is returned for every target language, in registry order.
C17_CompoundOnlyForGerman ==
    \A r \in DOMAIN pool :
        Retrieved(r) =>
            /\ HasSkill(pool[r].skills.generalSkills, "compound_word_detection")
                   <=> pool[r].targetLang = "de-DE"
            /\ OtherSkills(pool[r].skills.generalSkills) = OtherSkills(GENERAL_SKILLS)

C17_AbsentForFrench ==
    \E r \in DOMAIN pool :
        /\ Retrieved(r)
        /\ pool[r].targetLang = "fr-FR"
        /\ ~HasSkill(pool[r].skills.generalSkills, "compound_word_detection")
        /\ Len(pool[r].skills.generalSkills) = Len(GENERAL_SKILLS) - 1

\* C21: within one analysis attempt verifyIssues makes at most two backend
\* calls, and a verifier whose calls have thrown returns the input report:
\* the step that ends the verification of a complete draft resolves the
\* request, adds no failure, no wait and no analysis attempt, and after
\* thrown verifier calls the report handed on is the draft itself.
C21_VerifierFailureStaysLocal ==
    [][ pc = "verifying" =>
          /\ verifierCalls' <= 2
          /\ verifierCalls' = verifierCalls
          /\ draft' = draft
          /\ verifyOutcome' = "callsFailed" => verified' = draft
          /\ ~ReconcileThrows(draft) =>
                /\ pc' = "resolved"
                /\ failures' = failures
                /\ slept' = slept
                /\ analyses' = analyses ]_vars

C21_ResolvedAfterVerifierThrew ==
    /\ Resolved
    /\ verifyOutcome = "callsFailed"
    /\ verifierCalls = 1
    /\ verified = draft
    /\ Len(draft.issues) > 0
    /\ failures = [primary |-> 0, fallback |-> 0]
    /\ slept = <<>>
\* C22: processImageUrl does not fail because of the content type and yields
\* one of the five supported types: a supported type of the body is kept; any
\* other becomes image/png when the URL ends with ".png" in any letter case
\* and image/jpeg otherwise.  A call fails only on the fetch, on the reader,
\* or on a body without bytes.
SupportedTypes ==
    { <<"image/png">>, <<"image/jpeg">>, <<"image/webp">>, <<"image/heic">>,
      <<"image/heif">> }

UrlHintsPng(url) ==
    /\ Len(url) >= 4
    /\ url[Len(url) - 3] = "."
    /\ url[Len(url) - 2] \in {"p", "P"}
    /\ url[Len(url) - 1] \in {"n", "N"}
    /\ url[Len(url)] \in {"g", "G"}

C22_MimeTypeCoerced ==
    \A i \in DOMAIN images :
        LET job == images[i]
        IN /\ job.pc = "done" =>
                /\ job.result.mimeType \in SupportedTypes
                /\ job.result.data = job.blob.data
                /\ job.blob.type \in SupportedTypes =>
                       job.result.mimeType = job.blob.type
                /\ job.blob.type \notin SupportedTypes =>
                       job.result.mimeType =
                           IF UrlHintsPng(job.url) THEN <<"image/png">>
                           ELSE <<"image/jpeg">>
           /\ job.pc = "failed" =>
                /\ job.error \in {"FetchError", "HttpError", "ReaderError",
                                   "InvalidDataUrl"}
                /\ job.error = "InvalidDataUrl" => job.blob.data = <<>>

C22_UpperCasePngCoerced ==
    \E i \in DOMAIN images :
        /\ images[i].pc = "done"
        /\ images[i].url = <<"A", ".", "P", "N", "G">>
        /\ images[i].blob.type = <<"application/octet-stream">>
        /\ images[i].result.mimeType = <<"image/png">>
\* C23: every issue of the returned report has its severity in {Critical,
\* Major, Minor} and its category among the seven categories, the draft's
\* issues having theirs in these sets.
C23_SeverityAndCategoryInRange ==
    Resolved =>
        \A k \in DOMAIN report.issues :
            /\ report.issues[k].severity \in Severities
            /\ report.issues[k].issueCategory \in Categories
\* C24 (as stated): for every issue present in the draft and in the returned
\* report, the final severity is equal to or lower than the draft severity in
\* the order Critical > Major > Minor.
SeverityRank(sev) ==
    CASE sev = "Critical" -> 3
      [] sev = "Major" -> 2
      [] sev = "Minor" -> 1
      [] OTHER -> 4

NotRaised(final, initial) ==
    /\ final \in Severities
    /\ SeverityRank(final) <= SeverityRank(initial)

C24_SeverityNeverRaised ==
    Resolved =>
        \A k \in DOMAIN report.issues, j \in DOMAIN draft.issues :
            report.issues[k].id = draft.issues[j].id =>
                NotRaised(report.issues[k].severity, draft.issues[j].severity)

\* the verdict that counts for an id is valid and names severity sev
RefinedTo(id, sev) ==
    \E n \in DOMAIN verdicts :
        /\ verdicts[n].id = id
        /\ \A o \in DOMAIN verdicts : verdicts[o].id = id => o <= n
        /\ verdicts[n].isValid = "true"
        /\ verdicts[n].refinedSeverity = sev

\* C24 (amended): the rescue and the sanitization only lower a severity; the
\* one way a severity rises is the refinedSeverity of a valid verdict, which
\* overwrites it.  For every issue present in the draft and in the returned
\* report the final severity is not above the draft severity, or it is the
\* refinedSeverity of the issue's valid verdict.
C24_RaisedOnlyByRefinement ==
    Resolved =>
        \A k \in DOMAIN report.issues, j \in DOMAIN draft.issues :
            report.issues[k].id = draft.issues[j].id =>
                \/ NotRaised(report.issues[k].severity, draft.issues[j].severity)
                \/ RefinedTo(draft.issues[j].id, report.issues[k].severity)

C24_MinorRefinedToCritical ==
    /\ Resolved
    /\ \E k \in DOMAIN report.issues, j \in DOMAIN draft.issues :
          /\ report.issues[k].id = draft.issues[j].id
          /\ draft.issues[j].severity = "Minor"
          /\ report.issues[k].severity = "Critical"
          /\ RefinedTo(draft.issues[j].id, "Critical")
\* C25: the issue list of the returned report is an order-preserving
\* subsequence of the issue list of the draft parsed in the same attempt:
\* no issue is added, reordered or given another id; verdicts on ids that
\* are no draft issue change nothing; sanitization removes no issue.
IdSequence(issues) == [k \in DOMAIN issues |-> issues[k].id]

RECURSIVE IsSubsequence(_, _)
IsSubsequence(a, b) ==
    IF a = <<>> THEN TRUE
    ELSE IF b = <<>> THEN FALSE
    ELSE IF Head(a) = Head(b) THEN IsSubsequence(Tail(a), Tail(b))
    ELSE IsSubsequence(a, Tail(b))

C25_IssuesAreSubsequence ==
    Resolved =>
        /\ IdSequence(draft.issues) =
               (IF generated.hasIssues THEN IdSequence(generated.issues) ELSE <<>>)
        /\ IsSubsequence(IdSequence(verified.issues), IdSequence(draft.issues))
        /\ IdSequence(sanitized.issues) = IdSequence(verified.issues)
        /\ IdSequence(report.issues) = IdSequence(sanitized.issues)
        /\ (\A n \in DOMAIN verdicts :
               \A j \in DOMAIN draft.issues : verdicts[n].id # draft.issues[j].id)
              => verified = draft

C25_FirstDroppedSecondKept ==
    /\ Resolved
    /\ Len(draft.issues) = 2
    /\ IdSequence(report.issues) = << draft.issues[2].id >>
    /\ report.issues[1].description # draft.issues[2].description
\* C26: the returned report is built only from the generation response and
\* the verifier verdicts of the attempt that succeeded.  An attempt starts
\* with nothing of an earlier attempt; the issues of the report are issues
\* of this attempt's generation response, a review marker stands only on
\* an issue this attempt's verdict rejected, an auto-downgrade marker only
\* on an issue this attempt's response tagged Terminology; and no step
\* follows a success.
HasMarker(issue, marker) ==
    \E n \in DOMAIN issue.description : issue.description[n] = marker

RejectedInThisAttempt(id) ==
    \E n \in DOMAIN verdicts :
        /\ verdicts[n].id = id
        /\ \A o \in DOMAIN verdicts : verdicts[o].id = id => o <= n
        /\ verdicts[n].isValid # "true"

AttemptIsFresh ==
    pc \in {"images", "generating"} =>
        /\ generated = NoReport
        /\ draft = NoReport
        /\ verdicts = <<>>
        /\ verifierCalls = 0
        /\ verified = NoReport
        /\ sanitized = NoReport

BuiltFromThisAttempt ==
    Resolved =>
        /\ generated # NoReport
        /\ \A k \in DOMAIN report.issues :
              \E j \in DOMAIN generated.issues :
                  /\ generated.issues[j].id = report.issues[k].id
                  /\ HasMarker(report.issues[k], ReviewPrefix) =>
                         RejectedInThisAttempt(report.issues[k].id)
                  /\ HasMarker(report.issues[k], AutoDowngradePrefix) =>
                         generated.issues[j].issueCategory = "Terminology"
                  /\ \E p \in DOMAIN report.issues[k].description :
                         report.issues[k].description[p] =
                             generated.issues[j].description[1]

C26_ReportFromSuccessfulAttempt ==
    /\ [](AttemptIsFresh /\ BuiltFromThisAttempt)
    /\ [][pc = "resolved" => (pc' = pc /\ analyses' = analyses)]_vars

C26_ResolvedAfterDiscardedDrafts ==
    /\ Resolved
    /\ discards = 2
    /\ analyses.primary = 3
    /\ Truthy(glossaryText)
    /\ Len(report.issues) = 2
    /\ \A k \in DOMAIN report.issues :
          /\ ~HasMarker(report.issues[k], ReviewPrefix)
          /\ ~HasMarker(report.issues[k], AutoDowngradePrefix)
\* the verdict that counts for the issue has isValid false or none at all
RejectingVerdict(issue) ==
    /\ HasVerdict(verdicts, issue.id)
    /\ VerdictOf(issue).isValid # "true"

InVerified(id) == \E j \in DOMAIN verified.issues : verified.issues[j].id = id

StaysAsStated(issue) ==
    InVerified(issue.id) <=>
        /\ issue.issueCategory \in {"Style", "Formatting"}
        /\ ~NamesHallucination(VerdictOf(issue))

\* C27 (as stated): an issue whose verdict has isValid false or missing stays
\* in the list if and only if its category is Style or Formatting and the
\* lower-cased reason contains none of the three phrases, for every verifier
\* response.
C27_AnyResponse ==
    Resolved =>
        \A k \in DOMAIN draft.issues :
            RejectingVerdict(draft.issues[k]) => StaysAsStated(draft.issues[k])

\* C27 (amended): the same, provided verifyIssues merged the verifier
\* response without an exception.
C27_StaysIffRescuableWhenMerged ==
    (Resolved /\ verifyOutcome = "merged") =>
        \A k \in DOMAIN draft.issues :
            RejectingVerdict(draft.issues[k]) => StaysAsStated(draft.issues[k])

C27_GrammarAndCapitalisedPhraseDropped ==
    /\ Resolved
    /\ verifyOutcome = "merged"
    /\ \E k \in DOMAIN draft.issues :
          /\ draft.issues[k].issueCategory = "Grammar"
          /\ RejectingVerdict(draft.issues[k])
          /\ ~InVerified(draft.issues[k].id)
    /\ \E k \in DOMAIN draft.issues :
          /\ draft.issues[k].issueCategory = "Style"
          /\ RejectingVerdict(draft.issues[k])
          /\ \E n \in DOMAIN VerdictOf(draft.issues[k]).reason.words :
                VerdictOf(draft.issues[k]).reason.words[n].cap
          /\ ~InVerified(draft.issues[k].id)
\* C28: in a returned report no issue carries both pipeline markers, and the
\* pipeline prefixes a description at most once: the review marker stands
\* only on issues of category Style or Formatting, the auto-downgrade
\* marker only on issues the draft tagged Terminology.
MarkerCount(issue) ==
    Cardinality({ n \in DOMAIN issue.description :
                    issue.description[n] \in {ReviewPrefix, AutoDowngradePrefix} })

C28_AtMostOneMarker ==
    Resolved =>
        \A k \in DOMAIN report.issues :
            /\ MarkerCount(report.issues[k]) <= 1
            /\ ~(HasMarker(report.issues[k], ReviewPrefix)
                   /\ HasMarker(report.issues[k], AutoDowngradePrefix))
            /\ \A j \in DOMAIN draft.issues :
                  draft.issues[j].id = report.issues[k].id =>
                      /\ HasMarker(report.issues[k], ReviewPrefix) =>
                             draft.issues[j].issueCategory \in {"Style", "Formatting"}
                      /\ HasMarker(report.issues[k], AutoDowngradePrefix) =>
                             draft.issues[j].issueCategory = "Terminology"

C28_OneRescuedOneDowngraded ==
    /\ Resolved
    /\ \E k \in DOMAIN report.issues :
          /\ HasMarker(report.issues[k], ReviewPrefix)
          /\ ~HasMarker(report.issues[k], AutoDowngradePrefix)
    /\ \E k \in DOMAIN report.issues :
          /\ HasMarker(report.issues[k], AutoDowngradePrefix)
          /\ ~HasMarker(report.issues[k], ReviewPrefix)
\* C29: verifyIssues and sanitizeReport leave report.summary alone:
\* severeCount, majorCount and minorCount after the two stages are the
\* values of the generation response, also when issues were dropped or
\* their severities changed.
C29_SummaryUntouched ==
    Resolved =>
        /\ draft.summary = generated.summary
        /\ verified.summary = generated.summary
        /\ sanitized.summary = generated.summary

C29_CountsOutliveDroppedIssues ==
    /\ Resolved
    /\ Len(draft.issues) = 2
    /\ Len(sanitized.issues) = 1
    /\ sanitized.issues[1].severity = "Minor"
    /\ sanitized.issues[1].severity # draft.issues[2].severity
    /\ sanitized.summary = generated.summary
    /\ sanitized.summary = [severeCount |-> 1, majorCount |-> 1, minorCount |-> 1]
\* C30: provided every image fetch and backend call eventually returns or
\* throws, every request eventually resolves with a report or rejects, after
\* at most 6 analysis attempts (3 per model), at most 4 backoff waits (1000,
\* 2000, 1000, 2000 ms) and at most 2 verifier calls per attempt.
Settled == pc \in {"resolved", "rejected"}

WithinBudget ==
    /\ analyses.primary <= MaxAttempts
    /\ analyses.fallback <= MaxAttempts
    /\ analyses.primary + analyses.fallback <= 6
    /\ Len(slept) <= 4
    /\ IsPrefix(slept, <<1000, 2000, 1000, 2000>>)
    /\ verifierCalls <= 2

C30_SettlesWithinBudget == <>Settled /\ []WithinBudget

C30_RejectedAfterFourWaits ==
    /\ pc = "rejected"
    /\ apiKey
    /\ slept = <<1000, 2000, 1000, 2000>>
    /\ analyses.primary = 3
    /\ discards >= 1
====
